---- MODULE Spec2Model ----
(***************************************************************************)
(* Order workflow (Service.createOrder) and the generic repository         *)
(* (Service<T> over Controller<T>) of soul_backend.                        *)
(*                                                                         *)
(* Units.  Money amounts are counted in cents, so the tolerance 0.01 of    *)
(* createOrder is 1.  Quantities are counted in halves, so 2 is the        *)
(* quantity 1, 1 is the quantity 0.5 and -2 is the quantity -1; this keeps *)
(* non-integer and non-positive quantities among the inputs.               *)
(* A statusCode of 0 is an error that carries no statusCode (the code      *)
(* tests it with !error.statusCode); the string codes '500' and '404' of   *)
(* the helpers are the numbers 500 and 404 here.                           *)
(***************************************************************************)
EXTENDS Integers, Sequences, FiniteSets, TLC

\* ---------------------------------------------------------------- bounds
\* Longest cart a caller submits.
MaxItems == 2
\* Most records the generic repository ever creates.
MaxRecords == 2

\* ------------------------------------------------------------ input sets
Procs == {"p1", "p2"}
\* the invocation followed when createOrder runs alone
Solo == {"p1"}
ProductIds == {1, 2}
Prices == {1, 2}
QtyHalves == {-2, 0, 1, 2, 3, 4}
Totals == 0 .. (4 * MaxItems + 2)
CustomerEmails == {"customer@example.com"}
\* the authenticated Code record; the Code model has no role field, so reading
\* code.role gives undefined
AuthCodes == {[code |-> "333333", role |-> "undefined", assignedTo |-> "Admin"]}
\* the invocations of the initializer within one process, and the processes in turn
Starts == {"s1", "s2", "s3"}
Lifetimes == {1, 2}
\* the code values an administrator adds through the code routes
OtherCodes == {"111111"}
\* statusCode carried by a failure of the storage collaborator: none, or one it set itself
StorageFaults == {0, 409}

\* the generic entity: two text fields, texts as sequences of characters
Titles == {<<"b">>, <<"a", "b">>}
Genres == {<<"b">>, <<"c">>}
QueryTexts == {<<"b">>}
Fields == {"title", "genre"}
FieldOrder == <<"id", "title", "genre", "createdAt", "updatedAt">>
Payloads == [title : Titles, genre : Genres]
Queries == UNION {[S -> QueryTexts] : S \in SUBSET Fields}
Patches == UNION {[S -> Titles] : S \in {{}, {"title"}}}
\* page and take as the caller gives them; 0 is an option left out
PageOptions == [page : {0, 1, 2}, take : {0, 1, 2}]
Formats == {"csv", "json", "xlsx", "pdf", "xml"}
Omits == {[f \in {} |-> TRUE], [f \in {"id"} |-> FALSE], [f \in {"title"} |-> TRUE]}

CartItems == [productId : ProductIds, price : Prices, quantity : QtyHalves]
Carts == UNION {[1 .. n -> CartItems] : n \in 0 .. MaxItems}
\* hasItems = FALSE is a body whose items field is absent
Bodies ==
    [customerEmail : CustomerEmails, hasItems : {TRUE}, items : Carts, totalAmount : Totals]
    \cup [customerEmail : CustomerEmails, hasItems : {FALSE}, items : {<<>>}, totalAmount : Totals]

\* ------------------------------------------------------ program constants
tolerance == 1
DefaultTake == 10
shop_email == "shop@example.com"

\* ------------------------------------------------------------------ state
VARIABLES
    orders,           \* the Order table: sequence of headers, the id is the position
    orderedProducts,  \* the OrderedProducts table: sequence of line-item rows
    outbox,           \* the sendMail calls made so far, each pending, delivered or failed
    pc,               \* where each createOrder invocation stands
    req,              \* its arguments (data, code)
    order,            \* its local `order` (the created header)
    result,           \* what it returned or threw
    records,          \* the table behind a generic Controller<T>, in id order
    nextId,           \* its autoincrement counter
    last,             \* the last call of the generic Service<T>: op, args, outcome, reply
    codes,            \* the Code table: sequence of access codes
    initialized,      \* the module-level flag of utils/default.ts, one per process
    boot,             \* where each invocation of the initializer stands in this process
    creates,          \* the Code.create calls this process issued and left to settle
    epoch,            \* which process this is, counting the starts of the server
    scan,             \* a client walking the pages of one paginated search
    http              \* one request to POST /order: where it stands, its principal, its reply

orderVars == <<orders, orderedProducts, outbox, pc, req, order, result>>
repoVars == <<records, nextId, last>>
startVars == <<codes, initialized, boot, creates, epoch>>
clientVars == <<scan, http>>
vars == <<orders, orderedProducts, outbox, pc, req, order, result, records, nextId, last,
          codes, initialized, boot, creates, epoch, scan, http>>

NoScan == [on |-> FALSE]
NoCode == [code |-> "", assignedTo |-> "", discount |-> 0]
NoRequest == [pc |-> "idle", authEnabled |-> FALSE, token |-> [valid |-> FALSE, id |-> 0],
              user |-> 0, code |-> NoCode, status |-> 0, error |-> "", orderId |-> 0]

NoReq == [data |-> [customerEmail |-> "", hasItems |-> FALSE, items |-> <<>>, totalAmount |-> 0],
          code |-> [code |-> "", role |-> "", assignedTo |-> ""]]
NoOrder == [id |-> 0, customerEmail |-> "", code |-> "", totalAmount |-> 0, assignedTo |-> ""]
NoResult == [kind |-> "none"]

Thrown(statusCode, message) == [kind |-> "error", statusCode |-> statusCode, message |-> message]

\* ------------------------------------------------------------- validation
Abs(x) == IF x < 0 THEN -x ELSE x

IsInteger(q) == q % 2 = 0

\* item.price * item.quantity, for a quantity counted in halves
LineTotal(item) == (item.price * item.quantity) \div 2

RECURSIVE SumLines(_, _)
SumLines(items, n) == IF n = 0 THEN 0 ELSE SumLines(items, n - 1) + LineTotal(items[n])

calculatedTotal(items) == SumLines(items, Len(items))

\* faulty variant: the length test is left out
EmptyCartAbsentOnly(data) == ~data.hasItems

EmptyCart(data) == ~data.hasItems \/ Len(data.items) = 0

\* faulty variant: Number.isInteger is left out
InvalidQuantityNoIntegerTest(data) ==
    \E i \in 1 .. Len(data.items) : data.items[i].quantity < 2

InvalidQuantity(data) ==
    \E i \in 1 .. Len(data.items) :
        ~IsInteger(data.items[i].quantity) \/ data.items[i].quantity < 2

\* faulty variant: the comparison is >= tolerance
TotalMismatchAtTolerance(data) ==
    Abs(calculatedTotal(data.items) - data.totalAmount) >= tolerance

\* faulty variant: Math.abs is left out
TotalMismatchOneSided(data) == calculatedTotal(data.items) - data.totalAmount > tolerance

TotalMismatch(data) == Abs(calculatedTotal(data.items) - data.totalAmount) > tolerance

EmptyCartError == Thrown(400, "Cart cannot be empty")
InvalidQuantityError == Thrown(400, "All quantities must be positive integers")
TotalMismatchError(data) ==
    [kind |-> "error", statusCode |-> 400, message |-> "Total amount mismatch",
     expected |-> calculatedTotal(data.items), received |-> data.totalAmount]

Validated == [kind |-> "valid"]

\* faulty variant: the total is not compared
ValidateSkipsTotal(data) ==
    IF EmptyCart(data) THEN EmptyCartError
    ELSE IF InvalidQuantity(data) THEN InvalidQuantityError
    ELSE Validated

\* faulty variant: the total is compared before the quantities are looked at
ValidateTotalFirst(data) ==
    IF EmptyCart(data) THEN EmptyCartError
    ELSE IF TotalMismatch(data) THEN TotalMismatchError(data)
    ELSE IF InvalidQuantity(data) THEN InvalidQuantityError
    ELSE Validated

Validate(data) ==
    IF EmptyCart(data) THEN EmptyCartError
    ELSE IF InvalidQuantity(data) THEN InvalidQuantityError
    ELSE IF TotalMismatch(data) THEN TotalMismatchError(data)
    ELSE Validated

\* ------------------------------------------------------- error tagging
\* catch (error) { if (!error.statusCode) error.statusCode = '500'; throw error; }
TagDefault(statusCode, default) == IF statusCode = 0 THEN default ELSE statusCode

\* the catch block of Controller.<op>
ControllerTag(op, statusCode) ==
    IF op = "getById" THEN TagDefault(statusCode, 404) ELSE TagDefault(statusCode, 500)

\* the catch block of Service.<op>
ServiceTag(op, statusCode) == TagDefault(statusCode, 500)

Init ==
    /\ orders = <<>>
    /\ orderedProducts = <<>>
    /\ outbox = <<>>
    /\ pc = [p \in Procs |-> "idle"]
    /\ req = [p \in Procs |-> NoReq]
    /\ order = [p \in Procs |-> NoOrder]
    /\ result = [p \in Procs |-> NoResult]
    /\ records = <<>>
    /\ nextId = 1
    /\ last = [op |-> "none"]
    /\ codes = <<>>
    /\ initialized = FALSE
    /\ boot = [s \in Starts |-> "idle"]
    /\ creates = <<>>
    /\ epoch = 1
    /\ scan = NoScan
    /\ http = NoRequest

\* createOrder(data, code) is entered: the validations run before the first await
Invoke(p, data, code) ==
    /\ pc[p] = "idle"
    /\ req' = [req EXCEPT ![p] = [data |-> data, code |-> code]]
    /\ LET v == Validate(data) IN
        IF v.kind = "error"
        THEN /\ pc' = [pc EXCEPT ![p] = "thrown"]
             /\ result' = [result EXCEPT ![p] = v]
        ELSE /\ pc' = [pc EXCEPT ![p] = "create"]
             /\ UNCHANGED result
    /\ UNCHANGED <<orders, orderedProducts, outbox, order>>
    /\ UNCHANGED <<repoVars, startVars>>

\* createOrder is called with a body and the authenticated code
Call(p) ==
    /\ pc[p] = "idle"
    /\ \E data \in Bodies, code \in AuthCodes : Invoke(p, data, code)
    /\ UNCHANGED clientVars

\* const order = await super.create({...}): Service.create over Controller.create
CreateHeader(p) ==
    /\ pc[p] = "create"
    /\ \/ LET created == [id |-> Len(orders) + 1,
                          customerEmail |-> req[p].data.customerEmail,
                          code |-> req[p].code.code,
                          totalAmount |-> req[p].data.totalAmount,
                          assignedTo |-> req[p].code.role]
          IN /\ orders' = Append(orders, created)
             /\ order' = [order EXCEPT ![p] = created]
             /\ pc' = [pc EXCEPT ![p] = "link"]
             /\ UNCHANGED result
       \/ \E fault \in StorageFaults :
             /\ result' = [result EXCEPT ![p] =
                    Thrown(ServiceTag("create", ControllerTag("create", fault)), "storage failure")]
             /\ pc' = [pc EXCEPT ![p] = "thrown"]
             /\ UNCHANGED <<orders, order>>
    /\ UNCHANGED <<orderedProducts, outbox, req>>
    /\ UNCHANGED <<repoVars, startVars, clientVars>>

\* the rows createMany is given: products.map(product => ({orderId, productId, quantity}))
LineItemRows(orderId, products) ==
    [i \in 1 .. Len(products) |->
        [orderId |-> orderId, productId |-> products[i].productId,
         quantity |-> products[i].quantity]]

\* faulty variant: createMany is not awaited and its rows never reach the table
LinkProductsDetached(p) ==
    /\ pc[p] = "link"
    /\ pc' = [pc EXCEPT ![p] = "mailCustomer"]
    /\ UNCHANGED <<orders, orderedProducts, outbox, req, order, result>>
    /\ UNCHANGED <<repoVars, startVars, clientVars>>

\* faulty variant: a failed createMany is answered by deleting the header
LinkProductsCompensated(p) ==
    /\ pc[p] = "link"
    /\ \/ /\ orderedProducts' = orderedProducts \o LineItemRows(order[p].id, req[p].data.items)
          /\ pc' = [pc EXCEPT ![p] = "mailCustomer"]
          /\ UNCHANGED <<orders, result>>
       \/ \E fault \in StorageFaults :
             /\ result' = [result EXCEPT ![p] = Thrown(fault, "storage failure")]
             /\ pc' = [pc EXCEPT ![p] = "thrown"]
             /\ orders' = SelectSeq(orders, LAMBDA o : o.id # order[p].id)
             /\ UNCHANGED orderedProducts
    /\ UNCHANGED <<outbox, req, order>>
    /\ UNCHANGED <<repoVars, startVars, clientVars>>

\* faulty variant: the rows are attached to the newest order of the table
LinkProductsToLatest(p) ==
    /\ pc[p] = "link"
    /\ \/ /\ orderedProducts' = orderedProducts \o LineItemRows(Len(orders), req[p].data.items)
          /\ pc' = [pc EXCEPT ![p] = "mailCustomer"]
          /\ UNCHANGED result
       \/ \E fault \in StorageFaults :
             /\ result' = [result EXCEPT ![p] = Thrown(fault, "storage failure")]
             /\ pc' = [pc EXCEPT ![p] = "thrown"]
             /\ UNCHANGED orderedProducts
    /\ UNCHANGED <<orders, outbox, req, order>>
    /\ UNCHANGED <<repoVars, startVars, clientVars>>

\* await Controller.linkProducts(order.id, data.items); a failure of createMany is
\* caught nowhere and leaves createOrder as it was thrown
LinkProducts(p) ==
    /\ pc[p] = "link"
    /\ \/ /\ orderedProducts' = orderedProducts \o LineItemRows(order[p].id, req[p].data.items)
          /\ pc' = [pc EXCEPT ![p] = "mailCustomer"]
          /\ UNCHANGED result
       \/ \E fault \in StorageFaults :
             /\ result' = [result EXCEPT ![p] = Thrown(fault, "storage failure")]
             /\ pc' = [pc EXCEPT ![p] = "thrown"]
             /\ UNCHANGED orderedProducts
    /\ UNCHANGED <<orders, outbox, req, order>>
    /\ UNCHANGED <<repoVars, startVars, clientVars>>

\* sendMail(to, ...) is called and its promise is left to settle on its own
Sent(to, orderId) == [to |-> to, orderId |-> orderId, status |-> "pending"]

\* sendMail(data.customerEmail, ...).catch(...)
DispatchCustomer(p) ==
    /\ pc[p] = "mailCustomer"
    /\ outbox' = Append(outbox, Sent(req[p].data.customerEmail, order[p].id))
    /\ pc' = [pc EXCEPT ![p] = "mailShop"]
    /\ UNCHANGED <<orders, orderedProducts, req, order, result>>
    /\ UNCHANGED <<repoVars, startVars, clientVars>>

\* faulty variant: the customer send is awaited before the function goes on
DispatchShopAfterAwait(p) ==
    /\ pc[p] = "mailShop"
    /\ \A i \in 1 .. Len(outbox) :
        outbox[i].orderId = order[p].id => outbox[i].status # "pending"
    /\ outbox' = Append(outbox, Sent(shop_email, order[p].id))
    /\ pc' = [pc EXCEPT ![p] = "reread"]
    /\ UNCHANGED <<orders, orderedProducts, req, order, result>>
    /\ UNCHANGED <<repoVars, startVars, clientVars>>

\* faulty variant: the second mail goes to the customer as well
DispatchShopToCustomer(p) ==
    /\ pc[p] = "mailShop"
    /\ outbox' = Append(outbox, Sent(req[p].data.customerEmail, order[p].id))
    /\ pc' = [pc EXCEPT ![p] = "reread"]
    /\ UNCHANGED <<orders, orderedProducts, req, order, result>>
    /\ UNCHANGED <<repoVars, startVars, clientVars>>

\* sendMail(env.shop_email, ...).catch(...)
DispatchShop(p) ==
    /\ pc[p] = "mailShop"
    /\ outbox' = Append(outbox, Sent(shop_email, order[p].id))
    /\ pc' = [pc EXCEPT ![p] = "reread"]
    /\ UNCHANGED <<orders, orderedProducts, req, order, result>>
    /\ UNCHANGED <<repoVars, startVars, clientVars>>

\* faulty variant: the include option is dropped
FindUniqueNoInclude(id) ==
    IF id \in 1 .. Len(orders)
    THEN [kind |-> "order", order |-> orders[id], items |-> <<>>]
    ELSE [kind |-> "null"]

\* findUnique({where: {id}, include: {items: true}}): the header with its rows, or null
FindUnique(id) ==
    IF id \in 1 .. Len(orders)
    THEN [kind |-> "order", order |-> orders[id],
          items |-> SelectSeq(orderedProducts, LAMBDA row : row.orderId = id)]
    ELSE [kind |-> "null"]

\* Service.getById over Controller.getById, the store answering
GetById(id) ==
    IF FindUnique(id).kind = "null" THEN Thrown(404, "Not found") ELSE FindUnique(id)

\* Service.getById over Controller.getById, findUnique failing
GetByIdFails(fault) ==
    Thrown(ServiceTag("getById", ControllerTag("getById", fault)), "storage failure")

\* return await this.getById(order.id, { include: { items: true } })
ReRead(p) ==
    /\ pc[p] = "reread"
    /\ \E got \in {GetById(order[p].id)} \cup {GetByIdFails(fault) : fault \in StorageFaults} :
        /\ result' = [result EXCEPT ![p] = got]
        /\ pc' = [pc EXCEPT ![p] = IF got.kind = "error" THEN "thrown" ELSE "returned"]
    /\ UNCHANGED <<orders, orderedProducts, outbox, req, order>>
    /\ UNCHANGED <<repoVars, startVars, clientVars>>

\* resend.emails.send answers without an error
SendMailResolves(i) ==
    /\ i \in 1 .. Len(outbox)
    /\ outbox[i].status = "pending"
    /\ outbox' = [outbox EXCEPT ![i].status = "delivered"]
    /\ UNCHANGED <<orders, orderedProducts, pc, req, order, result>>
    /\ UNCHANGED <<repoVars, startVars, clientVars>>

\* faulty variant: the rejection is not caught and reaches the invocation that sent the mail
SendMailRejectsUncaught(i) ==
    /\ i \in 1 .. Len(outbox)
    /\ outbox[i].status = "pending"
    /\ outbox' = [outbox EXCEPT ![i].status = "failed"]
    /\ \E p \in Procs :
        /\ order[p].id = outbox[i].orderId
        /\ IF pc[p] \in {"mailShop", "reread"}
           THEN /\ pc' = [pc EXCEPT ![p] = "thrown"]
                /\ result' = [result EXCEPT ![p] = Thrown(0, "mail failure")]
           ELSE UNCHANGED <<pc, result>>
    /\ UNCHANGED <<orders, orderedProducts, req, order>>
    /\ UNCHANGED <<repoVars, startVars, clientVars>>

\* sendMail throws; the caller's .catch(error => console.error(error)) takes it
SendMailRejects(i) ==
    /\ i \in 1 .. Len(outbox)
    /\ outbox[i].status = "pending"
    /\ outbox' = [outbox EXCEPT ![i].status = "failed"]
    /\ UNCHANGED <<orders, orderedProducts, pc, req, order, result>>
    /\ UNCHANGED <<repoVars, startVars, clientVars>>

MaxOutbox == 2 * Cardinality(Procs)

Next ==
    \/ \E p \in Solo : Call(p)
    \/ \E p \in Solo : CreateHeader(p)
    \/ \E p \in Solo : LinkProducts(p)
    \/ \E p \in Solo : DispatchCustomer(p)
    \/ \E p \in Solo : DispatchShop(p)
    \/ \E p \in Solo : ReRead(p)
    \/ \E i \in 1 .. MaxOutbox : SendMailResolves(i)
    \/ \E i \in 1 .. MaxOutbox : SendMailRejects(i)

Spec == Init /\ [][Next]_vars

\* bodies that pass the three validations: every item at price 0.01 and quantity 1,
\* the total their sum
PairCarts == UNION {[1 .. n -> [productId : ProductIds, price : {1}, quantity : {2}]] : n \in 1 .. MaxItems}
PairBodies ==
    {[customerEmail |-> email, hasItems |-> TRUE, items |-> cart, totalAmount |-> Len(cart)] :
        email \in CustomerEmails, cart \in PairCarts}

\* one of two concurrent invocations is entered
PairCall(p) ==
    /\ pc[p] = "idle"
    /\ \E data \in PairBodies, code \in AuthCodes : Invoke(p, data, code)
    /\ UNCHANGED clientVars

\* two invocations of createOrder interleaved at their awaits; the mails they leave
\* pending touch neither table and are left to settle outside
PairNext ==
    \/ \E p \in Procs : PairCall(p)
    \/ \E p \in Procs : CreateHeader(p)
    \/ \E p \in Procs : LinkProducts(p)
    \/ \E p \in Procs : DispatchCustomer(p)
    \/ \E p \in Procs : DispatchShop(p)
    \/ \E p \in Procs : ReRead(p)

\* PairSpec: two concurrent createOrder invocations
PairSpec == Init /\ [][PairNext]_vars
\* ------------------------------------------------ the generic repository
Min(a, b) == IF a < b THEN a ELSE b

\* faulty variant: Math.floor in place of Math.ceil
Floor(a, b) == a \div b

\* Math.ceil(a / b) for a >= 0 and b > 0
Ceil(a, b) == (a + b - 1) \div b

\* the value `contains` the text
Contains(text, part) ==
    \E i \in 0 .. (Len(text) - Len(part)) : SubSeq(text, i + 1, i + Len(part)) = part

\* where: { ...query }: every field given equals the record's
MatchesAll(rec, query) == \A k \in DOMAIN query : rec[k] = query[k]

\* faulty variant: the fields are combined with AND
MatchesEvery(rec, query) == \A k \in DOMAIN query : Contains(rec[k], query[k])

\* where: { OR: keys.map(key => ({ [key]: { contains: query[key] } })) }, or the
\* query itself when it has no key
MatchesAny(rec, query) ==
    IF DOMAIN query # {}
    THEN \E k \in DOMAIN query : Contains(rec[k], query[k])
    ELSE MatchesAll(rec, query)

\* faulty variant: the window runs one row past take
WindowOneMore(rows, skip, take) == SubSeq(rows, skip + 1, Min(skip + take + 1, Len(rows)))

\* findMany's take and skip over the rows that match, in id order
Window(rows, skip, take) == SubSeq(rows, skip + 1, Min(skip + take, Len(rows)))

\* faulty variant: skip is page x take
PassingOptionsSkipsPage(options) ==
    [take |-> IF options.take = 0 THEN DefaultTake ELSE options.take,
     skip |-> (IF options.page = 0 THEN 1 ELSE options.page)
                * (IF options.take = 0 THEN DefaultTake ELSE options.take)]

\* passingOptions of Service.search and Service.paginatedSearch
PassingOptions(options) ==
    [take |-> IF options.take = 0 THEN DefaultTake ELSE options.take,
     skip |-> ((IF options.page = 0 THEN 1 ELSE options.page) - 1)
                * (IF options.take = 0 THEN DefaultTake ELSE options.take)]

PositionOf(id) ==
    IF \E i \in 1 .. Len(records) : records[i].id = id
    THEN CHOOSE i \in 1 .. Len(records) : records[i].id = id
    ELSE 0

\* faulty variant: omit: { ...options?.omit, ...defaultOmit }
ExportedFieldsDefaultsLast(omit) ==
    LET defaultOmit == [f \in {"id", "createdAt", "updatedAt"} |-> TRUE]
        merged == [f \in DOMAIN defaultOmit \cup DOMAIN omit |->
                       IF f \in DOMAIN defaultOmit THEN defaultOmit[f] ELSE omit[f]]
    IN SelectSeq(FieldOrder, LAMBDA f : ~(f \in DOMAIN merged /\ merged[f]))

\* omit: { ...defaultOmit, ...options?.omit }: the fields left in the exported rows
ExportedFields(omit) ==
    LET defaultOmit == [f \in {"id", "createdAt", "updatedAt"} |-> TRUE]
        merged == [f \in DOMAIN defaultOmit \cup DOMAIN omit |->
                       IF f \in DOMAIN omit THEN omit[f] ELSE defaultOmit[f]]
    IN SelectSeq(FieldOrder, LAMBDA f : ~(f \in DOMAIN merged /\ merged[f]))

ContentType(format) ==
    CASE format = "csv" -> "text/csv"
      [] format = "json" -> "application/json"
      [] format = "xlsx" -> "application/vnd.openxmlformats-officedocument.spreadsheetml.sheet"
      [] format = "pdf" -> "application/pdf"

NoReply == [sent |-> FALSE]

\* what the caller of Service.<op> gets when the storage call of Controller.<op> fails
StorageFailure(op, fault) ==
    Thrown(ServiceTag(op, ControllerTag(op, fault)), "storage failure")

Answered(op, args, outcome) ==
    [op |-> op, args |-> args, failed |-> FALSE, fault |-> 0, outcome |-> outcome, reply |-> NoReply]

\* the storage collaborator fails the call, with or without a statusCode of its own
FailsWith(op, args) ==
    /\ \E fault \in StorageFaults :
        last' = [op |-> op, args |-> args, failed |-> TRUE, fault |-> fault,
                 outcome |-> StorageFailure(op, fault), reply |-> NoReply]
    /\ UNCHANGED <<records, nextId>>

\* the same, for the operations whose failure is looked at whatever their arguments
Fails(op) == FailsWith(op, "any")

Create ==
    /\ \/ \E data \in Payloads :
              \/ /\ nextId <= MaxRecords
                 /\ LET rec == [id |-> nextId, title |-> data.title, genre |-> data.genre,
                                createdAt |-> "ts", updatedAt |-> "ts"]
                    IN /\ records' = Append(records, rec)
                       /\ nextId' = nextId + 1
                       /\ last' = Answered("create", data, [kind |-> "record", record |-> rec])
       \/ Fails("create")
    /\ UNCHANGED <<orderVars, startVars, clientVars>>

\* faulty variant: the where clause is dropped and the first record is read
RepoGetByIdFirst ==
    /\ \/ \E id \in 1 .. (MaxRecords + 1) :
              \/ /\ last' = Answered("getById", id,
                              IF records = <<>> THEN Thrown(404, "Not found")
                              ELSE [kind |-> "record", record |-> records[1]])
                 /\ UNCHANGED <<records, nextId>>
              \/ FailsWith("getById", id)
    /\ UNCHANGED <<orderVars, startVars, clientVars>>

RepoGetById ==
    /\ \/ \E id \in 1 .. (MaxRecords + 1) :
              \/ /\ last' = Answered("getById", id,
                              IF PositionOf(id) = 0 THEN Thrown(404, "Not found")
                              ELSE [kind |-> "record", record |-> records[PositionOf(id)]])
                 /\ UNCHANGED <<records, nextId>>
              \/ FailsWith("getById", id)
    /\ UNCHANGED <<orderVars, startVars, clientVars>>

Find ==
    /\ \/ \E query \in Queries :
              \/ /\ LET found == SelectSeq(records, LAMBDA rec : MatchesAll(rec, query))
                    IN last' = Answered("find", query,
                                  IF found = <<>> THEN [kind |-> "null"]
                                  ELSE [kind |-> "record", record |-> Head(found)])
                 /\ UNCHANGED <<records, nextId>>
       \/ Fails("find")
    /\ UNCHANGED <<orderVars, startVars, clientVars>>

Search ==
    /\ \/ \E query \in Queries, options \in PageOptions :
              \/ /\ LET found == SelectSeq(records, LAMBDA rec : MatchesAll(rec, query))
                        passing == PassingOptions(options)
                    IN last' = Answered("search", [query |-> query, options |-> options],
                                  [kind |-> "records",
                                   record |-> Window(found, passing.skip, passing.take)])
                 /\ UNCHANGED <<records, nextId>>
       \/ Fails("search")
    /\ UNCHANGED <<orderVars, startVars, clientVars>>

Reverse(rows) == [i \in 1 .. Len(rows) |-> rows[Len(rows) + 1 - i]]

\* orderBy: { id: 'desc' } when the caller gives it; the order of the ids when not
Ordered(rows, options) ==
    IF "orderBy" \in DOMAIN options /\ options.orderBy = "desc" THEN Reverse(rows) ELSE rows

\* what Controller.paginatedSearch returns over the rows of the table, called by
\* Service.paginatedSearch with the caller's query and options
Page(rows, query, options) ==
    LET found == Ordered(SelectSeq(rows, LAMBDA rec : MatchesAny(rec, query)), options)
        passing == PassingOptions(options)
        items == Len(rows)
    IN [kind |-> "page",
        record |-> Window(found, passing.skip, passing.take),
        count |-> Len(found),
        items |-> items,
        pages |-> Ceil(items, passing.take),
        currentPage |-> (passing.skip \div passing.take) + 1]

PaginatedSearch ==
    /\ \/ \E query \in Queries, options \in PageOptions :
              \/ /\ last' = Answered("paginatedSearch", [query |-> query, options |-> options],
                                     Page(records, query, options))
                 /\ UNCHANGED <<records, nextId>>
       \/ Fails("paginatedSearch")
    /\ UNCHANGED <<orderVars, startVars, clientVars>>

Count ==
    /\ \/ \E query \in Queries :
              \/ /\ last' = Answered("count", query,
                              [kind |-> "count",
                               count |-> Len(SelectSeq(records, LAMBDA rec : MatchesAll(rec, query)))])
                 /\ UNCHANGED <<records, nextId>>
       \/ Fails("count")
    /\ UNCHANGED <<orderVars, startVars, clientVars>>

Patched(rec, data) ==
    [f \in DOMAIN rec |-> IF f \in DOMAIN data THEN data[f] ELSE rec[f]]

\* collection.update throws when no record has the id; the error carries no statusCode
Update ==
    /\ \/ \E id \in 1 .. (MaxRecords + 1), data \in Patches :
              \/ /\ PositionOf(id) # 0
                 /\ records' = [records EXCEPT ![PositionOf(id)] = Patched(@, data)]
                 /\ last' = Answered("update", [id |-> id, data |-> data],
                              [kind |-> "record", record |-> Patched(records[PositionOf(id)], data)])
                 /\ UNCHANGED nextId
              \/ /\ PositionOf(id) = 0
                 /\ last' = Answered("update", [id |-> id, data |-> data],
                              Thrown(ServiceTag("update", ControllerTag("update", 0)), "not found"))
                 /\ UNCHANGED <<records, nextId>>
       \/ Fails("update")
    /\ UNCHANGED <<orderVars, startVars, clientVars>>

UpdateMany ==
    /\ \/ \E query \in Queries, data \in Patches :
              \/ /\ records' = [i \in 1 .. Len(records) |->
                                  IF MatchesAll(records[i], query)
                                  THEN Patched(records[i], data) ELSE records[i]]
                 /\ last' = Answered("updateMany", [query |-> query, data |-> data],
                              [kind |-> "count",
                               count |-> Len(SelectSeq(records, LAMBDA rec : MatchesAll(rec, query)))])
                 /\ UNCHANGED nextId
       \/ Fails("updateMany")
    /\ UNCHANGED <<orderVars, startVars, clientVars>>

\* collection.delete throws when no record has the id; the error carries no statusCode
Delete ==
    /\ \/ \E id \in 1 .. (MaxRecords + 1) :
              \/ /\ PositionOf(id) # 0
                 /\ records' = SelectSeq(records, LAMBDA rec : rec.id # id)
                 /\ last' = Answered("delete", id,
                              [kind |-> "record", record |-> records[PositionOf(id)]])
                 /\ UNCHANGED nextId
              \/ /\ PositionOf(id) = 0
                 /\ last' = Answered("delete", id,
                              Thrown(ServiceTag("delete", ControllerTag("delete", 0)), "not found"))
                 /\ UNCHANGED <<records, nextId>>
       \/ Fails("delete")
    /\ UNCHANGED <<orderVars, startVars, clientVars>>

DeleteMany ==
    /\ \/ \E query \in Queries :
              \/ /\ records' = SelectSeq(records, LAMBDA rec : ~MatchesAll(rec, query))
                 /\ last' = Answered("deleteMany", query,
                              [kind |-> "count",
                               count |-> Len(SelectSeq(records, LAMBDA rec : MatchesAll(rec, query)))])
                 /\ UNCHANGED nextId
       \/ Fails("deleteMany")
    /\ UNCHANGED <<orderVars, startVars, clientVars>>

\* the rows an export writes: the fields kept, and each record's values for them
ExportDocument(format, rows, fields) ==
    [format |-> format,
     header |-> fields,
     rows |-> [i \in 1 .. Len(rows) |-> [j \in 1 .. Len(fields) |-> rows[i][fields[j]]]]]

\* the call repeats, argument for argument, the export answered just before it
Repeats(args) == last.op = "export" /\ ~last.failed /\ last.args = args

\* reply.header(...).header(...).send(document)
Replied(args, reply) ==
    [op |-> "export", args |-> args, failed |-> FALSE, fault |-> 0, outcome |-> [kind |-> "sent"],
     reply |-> reply, again |-> Repeats(args)]

\* faulty variant: the test is left out
NoDataNever(data) == FALSE

\* if (data.length === 0)
NoData(data) == Len(data) = 0

\* faulty variant: the rows come in an order that changes from one read to the next
FindManyAnyOrder(query) ==
    LET rows == SelectSeq(records, LAMBDA rec : MatchesAll(rec, query))
        n == Len(rows)
    IN {[i \in 1 .. n |-> rows[f[i]]] :
            f \in {g \in [1 .. n -> 1 .. n] : \A i, j \in 1 .. n : g[i] = g[j] => i = j}}

\* collection.findMany({ where: { ...query } }): what the read of an export can return
FindMany(query) == {SelectSeq(records, LAMBDA rec : MatchesAll(rec, query))}

\* faulty variant: the rows are read before the format is looked at
ExportReadsFirst ==
    /\ \/ \E format \in Formats, query \in Queries, omit \in Omits :
              LET args == [format |-> format, query |-> query, omit |-> omit]
                  data == SelectSeq(records, LAMBDA rec : MatchesAll(rec, query))
              IN  \/ /\ data = <<>>
                     /\ last' = Answered("export", args,
                                  Thrown(ServiceTag("export", ControllerTag("export", 0)),
                                         "No data to export"))
                     /\ UNCHANGED <<records, nextId>>
                  \/ /\ data # <<>>
                     /\ format \notin {"pdf", "json", "csv", "xlsx"}
                     /\ last' = Answered("export", args, Thrown(400, "Unspecified format."))
                     /\ UNCHANGED <<records, nextId>>
                  \/ /\ data # <<>>
                     /\ format \in {"pdf", "json", "csv", "xlsx"}
                     /\ last' = Replied(args,
                                  [sent |-> TRUE,
                                   contentType |-> ContentType(format),
                                   filename |-> <<"Entity", format>>,
                                   payload |-> ExportDocument(format, data, ExportedFields(omit))])
                     /\ UNCHANGED <<records, nextId>>
       \/ \E format \in Formats : FailsWith("export", [format |-> format])
    /\ UNCHANGED <<orderVars, startVars, clientVars>>

Export ==
    /\ \/ \E format \in Formats, query \in Queries, omit \in Omits :
            \E data \in FindMany(query) :
              LET args == [format |-> format, query |-> query, omit |-> omit]
              IN  \/ /\ format \notin {"pdf", "json", "csv", "xlsx"}
                     /\ last' = Answered("export", args, Thrown(400, "Unspecified format."))
                     /\ UNCHANGED <<records, nextId>>
                  \/ /\ format \in {"pdf", "json", "csv", "xlsx"}
                     /\ NoData(data)
                     /\ last' = Answered("export", args,
                                  Thrown(ServiceTag("export", ControllerTag("export", 0)),
                                         "No data to export"))
                     /\ UNCHANGED <<records, nextId>>
                  \/ /\ format \in {"pdf", "json", "csv", "xlsx"}
                     /\ ~NoData(data)
                     /\ last' = Replied(args,
                                  [sent |-> TRUE,
                                   contentType |-> ContentType(format),
                                   filename |-> <<"Entity", format>>,
                                   payload |-> ExportDocument(format, data, ExportedFields(omit))])
                     /\ UNCHANGED <<records, nextId>>
       \/ \E format \in {"pdf", "json", "csv", "xlsx"} : FailsWith("export", [format |-> format])
    /\ UNCHANGED <<orderVars, startVars, clientVars>>

RepoNext ==
    \/ Create
    \/ RepoGetById
    \/ Find
    \/ Search
    \/ PaginatedSearch
    \/ Count
    \/ Update
    \/ UpdateMany
    \/ Delete
    \/ DeleteMany
    \/ Export

\* RepoSpec: the generic repository on its own table
RepoSpec == Init /\ [][RepoNext]_vars

\* ------------------------------------------- a client walking the pages
ScanTakes == {1}
ScanQueries == {q \in Queries : DOMAIN q \subseteq {"title"}}
ScanOrders == {"asc", "desc"}
ScanPages == {1, 2}

ScanOptions(n) == [page |-> n, take |-> scan.take, orderBy |-> scan.orderBy]

\* the client settles on a query, a page size and an order
StartScan ==
    /\ ~scan.on
    /\ \E query \in ScanQueries, take \in ScanTakes, orderBy \in ScanOrders :
        scan' = [on |-> TRUE, query |-> query, take |-> take, orderBy |-> orderBy,
                 fetched |-> <<>>]
    /\ UNCHANGED http
    /\ UNCHANGED <<orderVars, repoVars, startVars>>

\* faulty variant: every page is cut from the table as it stood at the first fetch
FetchPageOfSnapshot ==
    /\ scan.on
    /\ Len(scan.fetched) + 1 \in ScanPages
    /\ \/ scan' = [scan EXCEPT !.fetched = Append(@,
                       [table |-> records,
                        page |-> Page(IF scan.fetched = <<>> THEN records
                                      ELSE scan.fetched[1].table,
                                      scan.query, ScanOptions(Len(scan.fetched) + 1))])]
       \/ scan' = NoScan
    /\ UNCHANGED http
    /\ UNCHANGED <<orderVars, repoVars, startVars>>

\* the client asks Service.paginatedSearch for its next page; each call reads the
\* table as it stands then; on a failure the client gives up
FetchPage ==
    /\ scan.on
    /\ Len(scan.fetched) + 1 \in ScanPages
    /\ \/ scan' = [scan EXCEPT !.fetched = Append(@,
                       [table |-> records,
                        page |-> Page(records, scan.query, ScanOptions(Len(scan.fetched) + 1))])]
       \/ scan' = NoScan
    /\ UNCHANGED http
    /\ UNCHANGED <<orderVars, repoVars, startVars>>

ScanNext ==
    \/ Create
    \/ Delete
    \/ StartScan
    \/ FetchPage

\* ScanSpec: pages fetched one call at a time while records are created and deleted
ScanSpec == Init /\ [][ScanNext]_vars

\* ------------------------------------------------- the default initializer
DefaultCode == [code |-> "333333", assignedTo |-> "Admin", discount |-> 0]

\* Controller.find({ code }): findFirst over the codes with that value
getByCode(code) ==
    LET found == SelectSeq(codes, LAMBDA c : c.code = code)
    IN IF found = <<>> THEN [kind |-> "null"] ELSE [kind |-> "code", code |-> Head(found)]

\* faulty variant: the flag is not looked at on entry
InitializeUnguarded(s) ==
    /\ boot[s] = "idle"
    /\ initialized' = TRUE
    /\ boot' = [boot EXCEPT ![s] = "finding"]
    /\ UNCHANGED <<codes, creates, epoch>>
    /\ UNCHANGED <<orderVars, repoVars, clientVars>>

\* the initializer is called: if (initialized) return; initialized = true; then the
\* call of Code.getByCode, which it awaits
Initialize(s) ==
    /\ boot[s] = "idle"
    /\ IF initialized
       THEN /\ boot' = [boot EXCEPT ![s] = "skipped"]
            /\ UNCHANGED initialized
       ELSE /\ initialized' = TRUE
            /\ boot' = [boot EXCEPT ![s] = "finding"]
    /\ UNCHANGED <<codes, creates, epoch>>
    /\ UNCHANGED <<orderVars, repoVars, clientVars>>

\* getByCode answers: if (!code) Code.create({...}), which is not awaited
GetByCodeResolves(s) ==
    /\ boot[s] = "finding"
    /\ IF getByCode(DefaultCode.code).kind = "null"
       THEN /\ creates' = Append(creates, "pending")
            /\ boot' = [boot EXCEPT ![s] = "created"]
       ELSE /\ boot' = [boot EXCEPT ![s] = "found"]
            /\ UNCHANGED creates
    /\ UNCHANGED <<codes, initialized, epoch>>
    /\ UNCHANGED <<orderVars, repoVars, clientVars>>

\* getByCode fails: the error is logged and thrown again; the flag stays set
GetByCodeRejects(s) ==
    /\ boot[s] = "finding"
    /\ boot' = [boot EXCEPT ![s] = "thrown"]
    /\ UNCHANGED <<codes, initialized, creates, epoch>>
    /\ UNCHANGED <<orderVars, repoVars, clientVars>>

\* the create that was left to settle inserts the default code
CreateResolves(i) ==
    /\ i \in 1 .. Len(creates)
    /\ creates[i] = "pending"
    /\ codes' = Append(codes, DefaultCode)
    /\ creates' = [creates EXCEPT ![i] = "done"]
    /\ UNCHANGED <<initialized, boot, epoch>>
    /\ UNCHANGED <<orderVars, repoVars, clientVars>>

\* the create that was left to settle fails; nothing waits for it
CreateRejects(i) ==
    /\ i \in 1 .. Len(creates)
    /\ creates[i] = "pending"
    /\ creates' = [creates EXCEPT ![i] = "failed"]
    /\ UNCHANGED <<codes, initialized, boot, epoch>>
    /\ UNCHANGED <<orderVars, repoVars, clientVars>>

\* the server is stopped, with no call of the initializer in flight, and started
\* again: the module is loaded anew, the Code table is the same
Restart ==
    /\ epoch + 1 \in Lifetimes
    /\ \A s \in Starts : boot[s] # "finding"
    /\ \A i \in 1 .. Len(creates) : creates[i] # "pending"
    /\ epoch' = epoch + 1
    /\ initialized' = FALSE
    /\ boot' = [s \in Starts |-> "idle"]
    /\ creates' = <<>>
    /\ UNCHANGED codes
    /\ UNCHANGED <<orderVars, repoVars, clientVars>>

\* an administrator adds a code of another value, one the table does not hold
AddCode(value) ==
    /\ getByCode(value).kind = "null"
    /\ codes' = Append(codes, [code |-> value, assignedTo |-> "Staff", discount |-> 0])
    /\ UNCHANGED <<initialized, boot, creates, epoch>>
    /\ UNCHANGED <<orderVars, repoVars, clientVars>>

\* an administrator deletes a code
DeleteCode(i) ==
    /\ i \in 1 .. Len(codes)
    /\ codes' = [j \in 1 .. (Len(codes) - 1) |-> IF j < i THEN codes[j] ELSE codes[j + 1]]
    /\ UNCHANGED <<initialized, boot, creates, epoch>>
    /\ UNCHANGED <<orderVars, repoVars, clientVars>>

MaxCodes == Cardinality(Starts) + Cardinality(OtherCodes)

StartNext ==
    \/ \E s \in Starts : Initialize(s)
    \/ \E s \in Starts : GetByCodeResolves(s)
    \/ \E s \in Starts : GetByCodeRejects(s)
    \/ \E i \in 1 .. MaxCodes : CreateResolves(i)
    \/ \E i \in 1 .. MaxCodes : CreateRejects(i)
    \/ Restart
    \/ \E value \in OtherCodes : AddCode(value)
    \/ \E i \in 1 .. MaxCodes : DeleteCode(i)

\* StartSpec: the initializer and the Code table over the starts of the server
StartSpec == Init /\ [][StartNext]_vars

\* ------------------------------------------------------ POST /order
\* the invocation of createOrder made by the route
Handler == "p1"
\* ids a token can carry
PrincipalIds == {1, 2}
\* the bearer token of a request: absent or rejected by jwtVerify, or verified with
\* its payload { id }
Tokens == {[valid |-> FALSE, id |-> 0]} \cup {[valid |-> TRUE, id |-> id] : id \in PrincipalIds}

\* findUnique({ where: { id } }) on the Code table; codes are only appended here, so
\* the id of a code is its position
CodeById(id) ==
    IF id \in 1 .. Len(codes) THEN [kind |-> "code", code |-> codes[id]] ELSE [kind |-> "null"]

\* the Code record as createOrder reads it: code.code and code.role, and a Code has no role
AsCaller(code) == [code |-> code.code, role |-> "undefined", assignedTo |-> code.assignedTo]

\* reply.status(statusCode).send({ error: message })
Refused(statusCode, message) ==
    [http EXCEPT !.pc = "replied", !.status = statusCode, !.error = message]

\* a request arrives; AUTH_ENABLED is what the process was started with
Receive ==
    /\ http.pc = "idle"
    /\ \E enabled \in BOOLEAN, token \in Tokens :
        http' = [NoRequest EXCEPT !.pc = "auth", !.authEnabled = enabled, !.token = token]
    /\ UNCHANGED scan
    /\ UNCHANGED <<orderVars, repoVars, startVars>>

\* the preHandler: if (!authEnabled) return; await request.jwtVerify(); a failure is
\* answered 401 and the handler is not run
Auth ==
    /\ http.pc = "auth"
    /\ http' = IF ~http.authEnabled THEN [http EXCEPT !.pc = "handler"]
               ELSE IF http.token.valid
                    THEN [http EXCEPT !.pc = "handler", !.user = http.token.id]
                    ELSE Refused(401, "Unauthorized")
    /\ UNCHANGED scan
    /\ UNCHANGED <<orderVars, repoVars, startVars>>

\* faulty variant: a request without a code is served under the default code
LoadCodeLenient ==
    /\ http.pc = "handler"
    /\ http' = [http EXCEPT !.pc = "calling",
                            !.code = IF CodeById(http.user).kind = "code"
                                     THEN CodeById(http.user).code ELSE DefaultCode]
    /\ UNCHANGED scan
    /\ UNCHANGED <<orderVars, repoVars, startVars>>

\* const code = await codeService.getById(request.user.id) inside the try: reading id
\* of no user throws a TypeError, Service.getById throws 404 'Not found' for null, and
\* the catch answers error.statusCode || 500 with error.message
LoadCode ==
    /\ http.pc = "handler"
    /\ \/ /\ http.user = 0
          /\ http' = Refused(500, "TypeError")
       \/ /\ http.user # 0
          /\ \/ http' = IF CodeById(http.user).kind = "null"
                        THEN Refused(404, "Not found")
                        ELSE [http EXCEPT !.pc = "calling", !.code = CodeById(http.user).code]
             \/ \E fault \in StorageFaults :
                    http' = Refused(ServiceTag("getById", ControllerTag("getById", fault)),
                                    "storage failure")
    /\ UNCHANGED scan
    /\ UNCHANGED <<orderVars, repoVars, startVars>>

\* const result = await Service.createOrder(request.body, code)
RouteCreateOrder ==
    /\ http.pc = "calling"
    /\ \E data \in Bodies : Invoke(Handler, data, AsCaller(http.code))
    /\ http' = [http EXCEPT !.pc = "awaiting"]
    /\ UNCHANGED scan

\* reply.send({ success: true, orderId: result.id, ... }), or the catch block:
\* reply.status(error.statusCode || 500).send({ error: error.message })
RouteReply ==
    /\ http.pc = "awaiting"
    /\ pc[Handler] \in {"returned", "thrown"}
    /\ http' = IF pc[Handler] = "returned"
               THEN [http EXCEPT !.pc = "replied", !.status = 200,
                                 !.orderId = result[Handler].order.id]
               ELSE Refused(TagDefault(result[Handler].statusCode, 500), result[Handler].message)
    /\ UNCHANGED scan
    /\ UNCHANGED <<orderVars, repoVars, startVars>>

RouteNext ==
    \/ \E value \in OtherCodes : AddCode(value)
    \/ Receive
    \/ Auth
    \/ LoadCode
    \/ RouteCreateOrder
    \/ RouteReply
    \/ CreateHeader(Handler)
    \/ LinkProducts(Handler)
    \/ DispatchCustomer(Handler)
    \/ DispatchShop(Handler)
    \/ ReRead(Handler)
    \/ \E i \in 1 .. MaxOutbox : SendMailResolves(i)
    \/ \E i \in 1 .. MaxOutbox : SendMailRejects(i)

\* RouteSpec: one request to POST /order, from its arrival to its reply
RouteSpec == Init /\ [][RouteNext]_vars

\* FairSpec: every storage round trip of createOrder and every step between two of
\* them completes; nothing is assumed of the mail collaborator.
FairSpec ==
    /\ Spec
    /\ \A p \in Procs :
        /\ WF_vars(CreateHeader(p))
        /\ WF_vars(LinkProducts(p))
        /\ WF_vars(DispatchCustomer(p))
        /\ WF_vars(DispatchShop(p))
        /\ WF_vars(ReRead(p))

\* ------------------------------------------------------------ properties
Range(seq) == {seq[i] : i \in 1 .. Len(seq)}
Called(p) == pc[p] # "idle"
Data(p) == req[p].data

\* the sum of price x quantity over the submitted items, in cents
RECURSIVE SubmittedSum(_)
SubmittedSum(items) ==
    IF items = <<>> THEN 0
    ELSE (Head(items).price * Head(items).quantity) \div 2 + SubmittedSum(Tail(items))

\* a non-empty cart whose quantities are all positive integers
GoodCart(data) ==
    /\ data.hasItems
    /\ Len(data.items) > 0
    /\ \A i \in 1 .. Len(data.items) :
        data.items[i].quantity > 0 /\ data.items[i].quantity % 2 = 0

Distance(data) == Abs(SubmittedSum(data.items) - data.totalAmount)

FailedWithMismatch(p) ==
    /\ pc[p] = "thrown"
    /\ result[p].statusCode = 400
    /\ result[p].message = "Total amount mismatch"

C1_WitnessMismatch ==
    \E p \in Procs : GoodCart(Data(p)) /\ Distance(Data(p)) = 2 /\ FailedWithMismatch(p)

\* C2: no persisted Order has zero line items.
C2_NoOrderWithoutLineItems ==
    \A id \in 1 .. Len(orders) :
        \E i \in 1 .. Len(orderedProducts) : orderedProducts[i].orderId = id

NoItems(data) == ~data.hasItems \/ data.items = <<>>

\* C3: createOrder called with items absent or empty fails with 'Cart cannot be
\* empty' (400), and the call persists no Order and no OrderLineItem.
C3_EmptyCartRejected ==
    /\ [](\A p \in Procs :
            (Called(p) /\ NoItems(Data(p))) =>
                /\ pc[p] = "thrown"
                /\ result[p] = [kind |-> "error", statusCode |-> 400,
                                message |-> "Cart cannot be empty"]
                /\ order[p].id = 0)
    /\ [][\A p \in Procs :
            (~Called(p) /\ Called(p)' /\ NoItems(Data(p))') =>
                orders' = orders /\ orderedProducts' = orderedProducts]_vars

C3_Witness ==
    \E p \in Procs :
        /\ Called(p) /\ Data(p).hasItems /\ Data(p).items = <<>>
        /\ Data(p).totalAmount = 0
        /\ pc[p] = "thrown"

C3_WitnessAbsent ==
    \E p \in Procs : Called(p) /\ ~Data(p).hasItems /\ pc[p] = "thrown"

BadQuantity(q) == q <= 0 \/ q % 2 # 0

\* C4: createOrder fails with the invalid-quantity error (400) whenever some item of
\* a non-empty cart has a quantity that is zero, negative or not an integer, whatever
\* the other items and the claimed total.
C4_InvalidQuantityRejected ==
    \A p \in Procs :
        (/\ Called(p)
         /\ ~NoItems(Data(p))
         /\ \E i \in 1 .. Len(Data(p).items) : BadQuantity(Data(p).items[i].quantity)) =>
            /\ pc[p] = "thrown"
            /\ result[p] = [kind |-> "error", statusCode |-> 400,
                            message |-> "All quantities must be positive integers"]

\* a good first item, a second item of quantity 1.5, and a total that matches the good
\* item alone
C4_Witness ==
    \E p \in Procs :
        /\ Called(p)
        /\ Len(Data(p).items) = 2
        /\ ~BadQuantity(Data(p).items[1].quantity)
        /\ Data(p).items[2].quantity = 3
        /\ Data(p).totalAmount = SubmittedSum(<<Data(p).items[1]>>)
        /\ pc[p] = "thrown"

RowsOf(rows, id) == SelectSeq(rows, LAMBDA row : row.orderId = id)

\* the rows an invocation's cart asks for are all in the table
AllLinked(p, rows) ==
    /\ Len(RowsOf(rows, order[p].id)) = Len(Data(p).items)
    /\ Len(Data(p).items) > 0

\* C5: within one createOrder invocation the header is persisted strictly before any
\* of its line items, and all its line items strictly before either notification is
\* dispatched.
C5_HeaderThenItemsThenMail ==
    [][/\ \A i \in (Len(orderedProducts) + 1) .. Len(orderedProducts') :
            orderedProducts'[i].orderId \in 1 .. Len(orders)
       /\ \A i \in (Len(outbox) + 1) .. Len(outbox') :
            \E p \in Procs :
                /\ order[p].id = outbox'[i].orderId
                /\ outbox'[i].orderId \in 1 .. Len(orders)
                /\ AllLinked(p, orderedProducts)]_vars

C5_Witness ==
    \E p \in Procs :
        /\ Len(outbox) = 2
        /\ outbox[1].orderId = order[p].id /\ outbox[2].orderId = order[p].id
        /\ Len(RowsOf(orderedProducts, order[p].id)) = 2

Finished(p) == pc[p] \in {"returned", "thrown"}

\* C6: createOrder returns without waiting for either send: once both are dispatched
\* it finishes even if no send ever completes, and what it returns is what the store
\* holds, whatever became of the sends.
C6_ReturnsWithoutWaitingForMail ==
    /\ \A p \in Procs : (pc[p] = "mailCustomer") ~> Finished(p)
    /\ [](\A p \in Procs : pc[p] = "returned" => result[p] = GetById(order[p].id))
    /\ [][(\E i \in 1 .. Len(outbox) : outbox'[i].status # outbox[i].status) =>
            (pc' = pc /\ result' = result)]_vars

\* returned while both sends are still pending
C6_Witness ==
    \E p \in Procs :
        /\ pc[p] = "returned"
        /\ Len(outbox) = 2
        /\ \A i \in 1 .. 2 : outbox[i].status = "pending" /\ outbox[i].orderId = order[p].id

SendFailedFor(p) ==
    \E i \in 1 .. Len(outbox) : outbox[i].orderId = order[p].id /\ outbox[i].status = "failed"

\* C7: a failed send is never surfaced to the caller and never rolls the order back:
\* the step on which a send fails changes neither the tables nor any invocation's
\* outcome, and afterwards the order and all its line items are persisted and
\* createOrder returns the order unless the re-read itself fails in the store.
C7_MailFailureAbsorbed ==
    /\ [](\A p \in Procs :
            SendFailedFor(p) =>
                /\ order[p].id \in 1 .. Len(orders)
                /\ AllLinked(p, orderedProducts)
                /\ pc[p] \in {"mailShop", "reread", "returned", "thrown"}
                /\ pc[p] = "thrown" => result[p].message = "storage failure"
                /\ pc[p] = "returned" => result[p].kind = "order")
    /\ [][(\E i \in 1 .. Len(outbox) :
                outbox[i].status = "pending" /\ outbox'[i].status = "failed") =>
            /\ orders' = orders
            /\ orderedProducts' = orderedProducts
            /\ pc' = pc
            /\ result' = result]_vars

\* both sends failed before the re-read, and the order is returned
C7_Witness ==
    \E p \in Procs :
        /\ pc[p] = "returned"
        /\ Len(outbox) = 2
        /\ \A i \in 1 .. 2 : outbox[i].status = "failed" /\ outbox[i].orderId = order[p].id
        /\ result[p].kind = "order"
        /\ Len(result[p].items) = Len(Data(p).items)

Creator(id) == CHOOSE p \in Procs : order[p].id = id

\* C8: every persisted Order has a totalAmount within 0.01 of the sum of
\* price x quantity over the items submitted with it, at the submitted prices.
C8_PersistedTotalWithinTolerance ==
    \A id \in 1 .. Len(orders) :
        /\ \E p \in Procs : order[p].id = id
        /\ Abs(orders[id].totalAmount - SubmittedSum(Data(Creator(id)).items)) <= 1

\* an order persisted with a total one cent off the sum of a two-item cart
C8_Witness ==
    \E id \in 1 .. Len(orders) :
        /\ Len(Data(Creator(id)).items) = 2
        /\ Abs(orders[id].totalAmount - SubmittedSum(Data(Creator(id)).items)) = 1

Bijections(n) == {f \in [1 .. n -> 1 .. n] : \A i, j \in 1 .. n : f[i] = f[j] => i = j}

\* C9: on success createOrder returns the persisted order as re-read, with its line
\* items: the totalAmount is the claimed total and the line items correspond one to
\* one to the submitted items, with the same product reference and quantity.
C9_ReturnsPersistedOrder ==
    \A p \in Procs :
        pc[p] = "returned" =>
            /\ result[p].kind = "order"
            /\ result[p].order = orders[order[p].id]
            /\ result[p].order.totalAmount = Data(p).totalAmount
            /\ Len(result[p].items) = Len(Data(p).items)
            /\ \E f \in Bijections(Len(Data(p).items)) :
                \A i \in 1 .. Len(Data(p).items) :
                    /\ result[p].items[f[i]].orderId = result[p].order.id
                    /\ result[p].items[f[i]].productId = Data(p).items[i].productId
                    /\ result[p].items[f[i]].quantity = Data(p).items[i].quantity

\* one item of quantity 2 gives one line item of quantity 2
C9_Witness ==
    \E p \in Procs :
        /\ pc[p] = "returned"
        /\ Len(Data(p).items) = 1
        /\ Data(p).items[1].quantity = 4
        /\ Len(result[p].items) = 1
        /\ result[p].items[1].quantity = 4
        /\ result[p].order.totalAmount = Data(p).totalAmount
\* C10: for every repository operation, a storage failure that carries no status
\* reaches the caller tagged 500, and one that carries a status reaches the caller
\* with that status unchanged.
C10_StorageFailureTagging ==
    (last.op # "none" /\ last.failed) =>
        /\ last.outcome.kind = "error"
        /\ last.outcome.statusCode = (IF last.fault = 0 THEN 500 ELSE last.fault)

\* the same, getById left aside
C10_TaggingExceptGetById ==
    (last.op # "none" /\ last.failed /\ last.op # "getById") =>
        /\ last.outcome.kind = "error"
        /\ last.outcome.statusCode = (IF last.fault = 0 THEN 500 ELSE last.fault)

\* C11: getById(id) fails with the not-found error (status 404) if and only if no
\* record with that id is in the store when it reads; otherwise it returns the record.
C11_NotFoundIffAbsent ==
    last.op = "getById" =>
        /\ (last.outcome.kind = "error" /\ last.outcome.statusCode = 404) =>
                PositionOf(last.args) = 0
        /\ ~last.failed =>
                /\ PositionOf(last.args) = 0 => last.outcome = Thrown(404, "Not found")
                /\ PositionOf(last.args) # 0 =>
                        last.outcome = [kind |-> "record", record |-> records[PositionOf(last.args)]]

\* the same for the reads the store answers
C11_NotFoundIffAbsentWhenAnswered ==
    (last.op = "getById" /\ ~last.failed) =>
        /\ PositionOf(last.args) = 0 <=> last.outcome = Thrown(404, "Not found")
        /\ PositionOf(last.args) # 0 =>
                last.outcome = [kind |-> "record", record |-> records[PositionOf(last.args)]]

Writes == {"update", "updateMany", "delete", "deleteMany"}

\* C12: getById(create(p).id) returns a record whose non-generated fields equal p,
\* with a generated id and timestamps, as long as no update or delete comes between:
\* create stores and returns such a record under a fresh id, no call other than an
\* update or a delete changes a stored record, and getById returns the stored record.
C12_CreateThenGetById ==
    /\ [][Len(records') = Len(records) + 1 =>
            LET rec == records'[Len(records')] IN
                /\ last'.op = "create" /\ ~last'.failed
                /\ last'.outcome = [kind |-> "record", record |-> rec]
                /\ DOMAIN rec = {"id", "title", "genre", "createdAt", "updatedAt"}
                /\ rec.title = last'.args.title /\ rec.genre = last'.args.genre
                /\ PositionOf(rec.id) = 0]_vars
    /\ [][last'.op \notin Writes =>
            /\ Len(records') >= Len(records)
            /\ \A i \in 1 .. Len(records) : records'[i] = records[i]]_vars
    /\ [](last.op = "getById" /\ ~last.failed /\ PositionOf(last.args) # 0 =>
            /\ last.outcome = [kind |-> "record", record |-> records[PositionOf(last.args)]]
            /\ last.outcome.record.id = last.args)
    /\ [][(/\ last.op = "create" /\ ~last.failed
           /\ last'.op = "getById" /\ ~last'.failed
           /\ last'.args = last.outcome.record.id) =>
            /\ last'.outcome.kind = "record"
            /\ last'.outcome.record.id = last'.args
            /\ last'.outcome.record.title = last.args.title
            /\ last'.outcome.record.genre = last.args.genre
            /\ last'.outcome.record.createdAt = last.outcome.record.createdAt]_vars

\* the second record created is read back by its id
C12_Witness ==
    /\ last.op = "getById" /\ ~last.failed
    /\ last.args = 2
    /\ Len(records) = 2
    /\ last.outcome.kind = "record"
    /\ last.outcome.record.title = <<"a", "b">>
    /\ records[1].title = <<"b">>

Takes == {1, 2, 3}

\* the records of page n of a paginated search over the table as it stands
PageRecords(query, take, n) == Range(Page(records, query, [page |-> n, take |-> take]).record)

\* C13: for every take > 0, while the data is unchanged, the records returned by
\* paginatedSearch for the pages 1..pageCount are, taken together, exactly the
\* records that match the filter, and no record comes on two pages.
C13_PagesCoverMatches ==
    /\ \A query \in Queries, take \in Takes :
        LET pageCount == Page(records, query, [page |-> 1, take |-> take]).pages IN
            /\ UNION {PageRecords(query, take, n) : n \in 1 .. pageCount}
                    = {rec \in Range(records) : MatchesAny(rec, query)}
            /\ \A n, m \in 1 .. pageCount :
                    n # m => PageRecords(query, take, n) \cap PageRecords(query, take, m) = {}
            /\ \A n \in 1 .. pageCount :
                    Page(records, query, [page |-> n, take |-> take]).pages = pageCount
    /\ (last.op = "paginatedSearch" /\ ~last.failed) =>
            last.outcome = Page(records, last.args.query, last.args.options)

\* page 2 of 2, one record a page, both records matching
C13_Witness ==
    /\ last.op = "paginatedSearch" /\ ~last.failed
    /\ last.args.options = [page |-> 2, take |-> 1]
    /\ last.outcome.pages = 2
    /\ last.outcome.count = 2
    /\ Len(last.outcome.record) = 1
    /\ last.outcome.record[1] = records[2]

KnownFormats == {"csv", "json", "xlsx", "pdf"}

\* C14: export with a format other than csv, json, xlsx or pdf fails with a 400
\* error; the store is not read, so the call cannot end in a storage failure and its
\* outcome is the same whatever the table holds, and nothing is written to the reply.
C14_UnknownFormatRejected ==
    (last.op = "export" /\ last.args.format \notin KnownFormats) =>
        /\ ~last.failed
        /\ last.outcome = Thrown(400, "Unspecified format.")
        /\ last.reply = NoReply

\* an unknown format over a filter that matches nothing, and over a table with records
C14_Witness ==
    /\ last.op = "export"
    /\ last.args.format = "xml"
    /\ last.outcome.kind = "error"
    /\ \A i \in 1 .. Len(records) : ~MatchesAll(records[i], last.args.query)
    /\ Len(records) = 2

\* C15: export in csv, json, xlsx or pdf over a filter that matches no record fails
\* with 'No data to export' and writes no header and no payload to the reply.
C15_EmptyExportRejected ==
    (/\ last.op = "export" /\ ~last.failed
     /\ last.args.format \in KnownFormats
     /\ \A i \in 1 .. Len(records) : ~MatchesAll(records[i], last.args.query)) =>
        /\ last.outcome.kind = "error"
        /\ last.outcome.message = "No data to export"
        /\ last.reply = NoReply

\* a filter that matches none of the records of a table that has some
C15_Witness ==
    /\ last.op = "export" /\ ~last.failed
    /\ last.args.format = "xlsx"
    /\ DOMAIN last.args.query = {"title"}
    /\ Len(records) = 1
    /\ records[1].title # last.args.query.title
    /\ last.outcome.kind = "error"

C16_WitnessJson ==
    /\ last.op = "export" /\ ~last.failed
    /\ last.reply.sent
    /\ last.again
    /\ last.args.format = "json"

DefaultCount(table) == Len(SelectSeq(table, LAMBDA c : c.code = DefaultCode.code))

C17_WitnessFound ==
    /\ epoch = 2
    /\ \E s \in Starts : boot[s] = "found"
    /\ creates = <<>>
    /\ DefaultCount(codes) = 1

\* the sendMail calls an invocation made
MailsOf(p) == SelectSeq(outbox, LAMBDA m : m.orderId = order[p].id)
MailsTo(p, to) == SelectSeq(MailsOf(p), LAMBDA m : m.to = to)
BeforeDispatch == {"idle", "create", "link"}

\* C18: a createOrder that succeeds has dispatched exactly two notifications, one to
\* the customer's email and one to the shop address; one that fails before the
\* dispatch step has dispatched none, and none is dispatched once it has finished.
C18_TwoNotificationsOnSuccess ==
    /\ [](\A p \in Procs :
            pc[p] = "returned" =>
                /\ Len(MailsOf(p)) = 2
                /\ Len(MailsTo(p, Data(p).customerEmail)) = 1
                /\ Len(MailsTo(p, shop_email)) = 1)
    /\ [](\A p \in Procs : pc[p] \in BeforeDispatch => MailsOf(p) = <<>>)
    /\ [][\A p \in Procs :
            (pc[p] \in BeforeDispatch /\ pc'[p] = "thrown") =>
                /\ outbox' = outbox
                /\ \A i \in 1 .. Len(outbox) : outbox[i].orderId # order'[p].id]_vars
    /\ [][(\A p \in Procs : Finished(p)) => Len(outbox') = Len(outbox)]_vars

\* returned with the customer's mail first and the shop's second
C18_Witness ==
    \E p \in Procs :
        /\ pc[p] = "returned"
        /\ Len(outbox) = 2
        /\ outbox[1].to = Data(p).customerEmail
        /\ outbox[2].to = shop_email

\* failed in the store with the header persisted and nothing sent
C18_WitnessNone ==
    \E p \in Procs :
        /\ pc[p] = "thrown"
        /\ result[p].message = "storage failure"
        /\ order[p].id = 1
        /\ outbox = <<>>

\* C19: the Order header persisted by createOrder has its code equal to the
\* authenticated code's code value and its assignedTo equal to the authenticated
\* code's assignedTo label.
C19_HeaderCarriesCode ==
    \A id \in 1 .. Len(orders) :
        /\ \E p \in Procs : order[p].id = id
        /\ orders[id].code = req[Creator(id)].code.code
        /\ orders[id].assignedTo = req[Creator(id)].code.assignedTo

\* the code value alone
C19_HeaderCarriesCodeValue ==
    \A id \in 1 .. Len(orders) :
        /\ \E p \in Procs : order[p].id = id
        /\ orders[id].code = req[Creator(id)].code.code

\* C20: when the bulk insert of the line items fails after the header was created,
\* createOrder throws what the insert threw and undoes nothing: the header stays in
\* the table with no line items, then and afterwards, and no notification is sent.
C20_LinkFailureLeavesOrphan ==
    /\ [][\A p \in Procs :
            (pc[p] = "link" /\ pc'[p] = "thrown") =>
                /\ result'[p].kind = "error"
                /\ result'[p].message = "storage failure"
                /\ result'[p].statusCode \in StorageFaults
                /\ orders' = orders
                /\ order[p].id \in 1 .. Len(orders') /\ orders'[order[p].id] = order[p]
                /\ orderedProducts' = orderedProducts
                /\ RowsOf(orderedProducts', order[p].id) = <<>>
                /\ outbox' = outbox]_vars
    /\ [](\A p \in Procs :
            (pc[p] = "thrown" /\ order[p].id # 0 /\ RowsOf(orderedProducts, order[p].id) = <<>>) =>
                /\ order[p].id \in 1 .. Len(orders)
                /\ orders[order[p].id] = order[p]
                /\ \A i \in 1 .. Len(outbox) : outbox[i].orderId # order[p].id)
    /\ [][\A p \in Procs :
            pc[p] = "thrown" =>
                /\ pc'[p] = "thrown"
                /\ orders' = orders
                /\ RowsOf(orderedProducts', order[p].id) = RowsOf(orderedProducts, order[p].id)]_vars

\* the insert failed with no statusCode: one header, no row, no mail
C20_Witness ==
    \E p \in Procs :
        /\ pc[p] = "thrown"
        /\ result[p] = Thrown(0, "storage failure")
        /\ Len(orders) = 1 /\ orders[1] = order[p]
        /\ Len(Data(p).items) = 2
        /\ orderedProducts = <<>>
        /\ outbox = <<>>


Returned(i) == Range(scan.fetched[i].page.record)

\* the walk took two pages and the table was the same at both fetches
Undisturbed ==
    /\ scan.on /\ Len(scan.fetched) = 2
    /\ scan.fetched[1].table = scan.fetched[2].table

\* a record came on both pages
Duplicated == scan.on /\ Len(scan.fetched) = 2 /\ Returned(1) \cap Returned(2) # {}

\* the walk reached the last page there was, and a matching record that was in the
\* table at both fetches came on no page
Skipped ==
    /\ scan.on /\ Len(scan.fetched) = 2
    /\ scan.fetched[2].page.pages <= 2
    /\ \E rec \in Range(scan.fetched[1].table) :
        /\ rec \in Range(scan.fetched[2].table)
        /\ MatchesAny(rec, scan.query)
        /\ rec \notin Returned(1) \cup Returned(2)

\* C21: paginatedSearch gives no snapshot across calls: every page is cut from the
\* table as it stands at that call, so a record inserted or deleted between the fetch
\* of page p and of page p+1 can bring a record on both pages or on neither, which
\* never happens while the table is unchanged.
C21_NoSnapshotAcrossPages ==
    /\ scan.on =>
        \A i \in 1 .. Len(scan.fetched) :
            scan.fetched[i].page = Page(scan.fetched[i].table, scan.query, ScanOptions(i))
    /\ Undisturbed => ~Duplicated /\ ~Skipped

\* a record deleted between the two fetches: the one that followed it came on neither
C21_Witness ==
    /\ Skipped
    /\ Len(scan.fetched[2].table) = Len(scan.fetched[1].table) - 1

\* a record inserted between the two fetches, newest first: one record came on both
C21_WitnessDuplicate ==
    /\ Duplicated
    /\ Len(scan.fetched[2].table) = Len(scan.fetched[1].table) + 1

\* the least n with n x take >= total
CeilingOf(total, take) == CHOOSE n \in 0 .. total : n * take >= total /\ (n = 0 \/ (n - 1) * take < total)

AskedPages == {1, 2, 3, 4}

\* C22: paginatedSearch computes skip = (page - 1) x take, pageCount = ceil(totalCount
\* / take) with totalCount the count of all records whatever the filter, and
\* currentPage = floor(skip / take) + 1, which is the page asked for, for every
\* page >= 1 and take > 0.
C22_PageArithmetic ==
    /\ \A query \in Queries, page \in AskedPages, take \in Takes :
        LET options == [page |-> page, take |-> take]
            got == Page(records, query, options)
        IN /\ PassingOptions(options).skip = (page - 1) * take
           /\ PassingOptions(options).take = take
           /\ got.items = Len(records)
           /\ got.pages = CeilingOf(Len(records), take)
           /\ got.currentPage = (PassingOptions(options).skip \div take) + 1
           /\ got.currentPage = page
    /\ (/\ last.op = "paginatedSearch" /\ ~last.failed
        /\ last.args.options.page >= 1 /\ last.args.options.take > 0) =>
            /\ last.outcome.currentPage = last.args.options.page
            /\ last.outcome.items = Len(records)
            /\ last.outcome.pages = CeilingOf(Len(records), last.args.options.take)

\* page 2 of 2 by the count of the whole table, while one record alone matches
C22_Witness ==
    /\ last.op = "paginatedSearch" /\ ~last.failed
    /\ last.args.options = [page |-> 2, take |-> 1]
    /\ last.outcome.currentPage = 2
    /\ last.outcome.items = 2
    /\ last.outcome.pages = 2
    /\ last.outcome.count = 1

\* part is a run of consecutive characters of text
HasSubstring(text, part) ==
    \E from \in 1 .. (Len(text) + 1), to \in 0 .. Len(text) :
        /\ to - from + 1 = Len(part)
        /\ \A i \in 1 .. Len(part) : text[from + i - 1] = part[i]

\* at least one field given holds the value given as a substring; every record when
\* no field is given
Wanted(rec, query) ==
    IF DOMAIN query = {} THEN TRUE
    ELSE \E k \in DOMAIN query : HasSubstring(rec[k], query[k])

\* C23: paginatedSearch with a predicate of at least one field matches exactly the
\* records for which at least one supplied field contains the supplied value as a
\* substring; with an empty predicate it matches every record.
C23_OrContainsFilter ==
    /\ \A query \in Queries :
        LET got == Page(records, query, [page |-> 1, take |-> Len(records) + 1])
        IN /\ Range(got.record) = {rec \in Range(records) : Wanted(rec, query)}
           /\ got.count = Cardinality({rec \in Range(records) : Wanted(rec, query)})
    /\ (last.op = "paginatedSearch" /\ ~last.failed) =>
            /\ last.outcome.count =
                    Cardinality({rec \in Range(records) : Wanted(rec, last.args.query)})
            /\ \A i \in 1 .. Len(last.outcome.record) :
                    Wanted(last.outcome.record[i], last.args.query)

\* both fields asked for: a record is returned whose title holds 'b' after another
\* character and whose genre does not hold it
C23_Witness ==
    /\ last.op = "paginatedSearch" /\ ~last.failed
    /\ DOMAIN last.args.query = {"title", "genre"}
    /\ Len(last.outcome.record) >= 1
    /\ last.outcome.record[1].title = <<"a", "b">>
    /\ last.outcome.record[1].genre = <<"c">>

C23_WitnessEmpty ==
    /\ last.op = "paginatedSearch" /\ ~last.failed
    /\ DOMAIN last.args.query = {}
    /\ last.outcome.count = 2

\* a field is in the output unless the caller asks to omit it or, the caller saying
\* nothing of it, it is the identifier or one of the two timestamps
Kept(field, omit) ==
    IF field \in DOMAIN omit THEN ~omit[field]
    ELSE field \notin {"id", "createdAt", "updatedAt"}

\* C24: every export leaves out the identifier, the creation timestamp and the update
\* timestamp by default, and the caller's omit option overrides that default field by
\* field: a field the caller sets to not omitted is in the output, the other defaults
\* stay omitted.
C24_DefaultOmitOverridden ==
    (last.op = "export" /\ ~last.failed /\ last.reply.sent) =>
        /\ \A f \in Range(FieldOrder) :
                f \in Range(last.reply.payload.header) <=> Kept(f, last.args.omit)
        /\ \A i \in 1 .. Len(last.reply.payload.rows) :
                Len(last.reply.payload.rows[i]) = Len(last.reply.payload.header)
        /\ last.args.omit = [f \in {} |-> TRUE] =>
                last.reply.payload.header = <<"title", "genre">>

\* the caller sets id to not omitted: the id is exported, the timestamps are not
C24_Witness ==
    /\ last.op = "export" /\ ~last.failed /\ last.reply.sent
    /\ last.args.format = "pdf"
    /\ last.args.omit = [f \in {"id"} |-> FALSE]
    /\ last.reply.payload.header = <<"id", "title", "genre">>
    /\ last.reply.payload.rows[1][1] = 1

Max(a, b) == IF a > b THEN a ELSE b

\* C30: while the data is unchanged, every paginatedSearch result for page >= 1 and
\* take > 0 returns at most take records, exactly min(take, max(0, matchingCount -
\* skip)) of them, and matchingCount <= totalCount, so pageCount x take >=
\* matchingCount.
C30_PageSizes ==
    /\ \A query \in Queries, page \in AskedPages, take \in Takes :
        LET got == Page(records, query, [page |-> page, take |-> take])
            skip == (page - 1) * take
        IN /\ Len(got.record) <= take
           /\ Len(got.record) = Min(take, Max(0, got.count - skip))
           /\ got.count = Cardinality({rec \in Range(records) : Wanted(rec, query)})
           /\ got.count <= got.items
           /\ got.items = Len(records)
           /\ got.pages * take >= got.count
    /\ (/\ last.op = "paginatedSearch" /\ ~last.failed
        /\ last.args.options.page >= 1 /\ last.args.options.take > 0) =>
            /\ Len(last.outcome.record) <= last.args.options.take
            /\ Len(last.outcome.record) =
                    Min(last.args.options.take,
                        Max(0, last.outcome.count
                                - (last.args.options.page - 1) * last.args.options.take))
            /\ last.outcome.count <= last.outcome.items
            /\ last.outcome.pages * last.args.options.take >= last.outcome.count

\* two records match, two a page: page 1 is full and page 2 is empty
C30_Witness ==
    /\ last.op = "paginatedSearch" /\ ~last.failed
    /\ last.args.options = [page |-> 2, take |-> 2]
    /\ last.outcome.count = 2
    /\ last.outcome.record = <<>>

C30_WitnessPartial ==
    /\ last.op = "paginatedSearch" /\ ~last.failed
    /\ last.args.options = [page |-> 1, take |-> 2]
    /\ last.outcome.count = 1
    /\ last.outcome.items = 2
    /\ Len(last.outcome.record) = 1

\* the cart fails one of the three validations
FailsValidation(data) ==
    \/ NoItems(data)
    \/ \E i \in 1 .. Len(data.items) : BadQuantity(data.items[i].quantity)
    \/ Distance(data) > 1

ValidationMessages ==
    {"Cart cannot be empty", "All quantities must be positive integers", "Total amount mismatch"}

\* C27: a createOrder that fails a validation (empty cart, invalid quantity or total
\* mismatch) leaves the store unchanged, creating no Order and no OrderLineItem, and
\* dispatches no notification, then and afterwards.
C27_ValidationFailureChangesNothing ==
    /\ [](\A p \in Procs :
            (Called(p) /\ FailsValidation(Data(p))) =>
                /\ pc[p] = "thrown"
                /\ result[p].message \in ValidationMessages
                /\ order[p] = NoOrder
                /\ \A id \in 1 .. Len(orders) : Creator(id) # p)
    /\ [][\A p \in Procs :
            (~Called(p) /\ Called(p)' /\ FailsValidation(Data(p))') =>
                /\ orders' = orders
                /\ orderedProducts' = orderedProducts
                /\ outbox' = outbox]_vars
    /\ [][(\A p \in Procs : Called(p) => FailsValidation(Data(p))) =>
            /\ orders' = orders
            /\ orderedProducts' = orderedProducts
            /\ outbox' = outbox]_vars

\* a good cart whose claimed total is two cents off: thrown, and the tables are empty
C27_Witness ==
    \E p \in Procs :
        /\ Called(p)
        /\ GoodCart(Data(p)) /\ Distance(Data(p)) = 2
        /\ pc[p] = "thrown"
        /\ orders = <<>> /\ orderedProducts = <<>> /\ outbox = <<>>

FailedWith(p, message) ==
    /\ pc[p] = "thrown"
    /\ result[p].statusCode = 400
    /\ result[p].message = message

\* C28: createOrder checks the cart in a fixed order, empty cart, then quantities,
\* then total: an empty cart fails with the empty-cart error whatever its total, a
\* non-empty cart with both an invalid quantity and a mismatching total fails with
\* the invalid-quantity error, the mismatch error is met only by a cart that passed
\* the first two checks, and every validation failure carries status 400.
C28_ValidationOrder ==
    \A p \in Procs :
        Called(p) =>
            /\ NoItems(Data(p)) => FailedWith(p, "Cart cannot be empty")
            /\ ( /\ ~NoItems(Data(p))
                 /\ \E i \in 1 .. Len(Data(p).items) : BadQuantity(Data(p).items[i].quantity)
                 /\ Distance(Data(p)) > 1 )
                    => FailedWith(p, "All quantities must be positive integers")
            /\ FailedWith(p, "Total amount mismatch") => GoodCart(Data(p))
            /\ (pc[p] = "thrown" /\ result[p].message \in ValidationMessages)
                    => result[p].statusCode = 400

\* a cart with quantity 1.5 and a claimed total far from the sum: invalid quantity
C28_Witness ==
    \E p \in Procs :
        /\ Called(p)
        /\ ~NoItems(Data(p))
        /\ \E i \in 1 .. Len(Data(p).items) : Data(p).items[i].quantity % 2 # 0
        /\ Distance(Data(p)) > 1
        /\ FailedWith(p, "All quantities must be positive integers")

\* the request has been answered without a loaded access code
Uncoded == http.pc = "replied" /\ http.code = NoCode

NothingPersisted == orders = <<>> /\ orderedProducts = <<>> /\ outbox = <<>>

\* C29: the route persists an Order only after the principal of the request has been
\* resolved to an existing access code: a request without principal (authentication
\* disabled) or whose code cannot be loaded is answered with an error status, and no
\* Order, no OrderLineItem and no notification comes of it.
C29_OrderOnlyWithLoadedCode ==
    /\ (orders # <<>> \/ orderedProducts # <<>> \/ outbox # <<>> \/ Called(Handler)) =>
            /\ http.user \in 1 .. Len(codes)
            /\ http.code = codes[http.user]
            /\ req[Handler].code = AsCaller(http.code)
    /\ (http.pc \notin {"idle", "auth", "handler"} /\ ~http.authEnabled) => Uncoded
    /\ (http.pc \notin {"idle", "auth", "handler"} /\ http.user \notin 1 .. Len(codes)) => Uncoded
    /\ Uncoded => (http.status >= 400 /\ ~Called(Handler) /\ NothingPersisted)

\* authentication disabled, a code in the table and a good token: answered 500
C29_Witness ==
    /\ Uncoded
    /\ ~http.authEnabled /\ http.token.valid /\ http.token.id \in 1 .. Len(codes)
    /\ http.status = 500
    /\ NothingPersisted

\* a verified principal whose code is not in the table
C29_WitnessMissing ==
    /\ Uncoded
    /\ http.authEnabled /\ http.user # 0 /\ http.user \notin 1 .. Len(codes)
    /\ http.status >= 400

\* the route serves an order once the code is loaded
C29_WitnessServed ==
    /\ http.pc = "replied" /\ http.status = 200
    /\ orders # <<>> /\ http.orderId = Len(orders)

\* the handler looks the code of a verified principal up and the table has no such code
MissingCodeStep ==
    /\ http.pc = "handler"
    /\ http.user # 0
    /\ CodeById(http.user).kind = "null"
    /\ http'.pc = "replied"
    /\ http'.error # "storage failure"

\* C25: when the access code the authenticated principal refers to is not found in
\* the store, the order-creation route answers status 401 with error 'Invalid
\* authentication token' and does not invoke createOrder.
C25_MissingCodeAnswered401 ==
    [][MissingCodeStep =>
        /\ http'.status = 401
        /\ http'.error = "Invalid authentication token"
        /\ ~Called(Handler)']_vars

\* C25, the part the route keeps: a missing code is answered 404 'Not found' by the
\* catch block and createOrder is not invoked.
C25_MissingCodeNotServed ==
    [][MissingCodeStep =>
        /\ http'.status = 404
        /\ http'.error = "Not found"
        /\ ~Called(Handler)'
        /\ UNCHANGED <<orders, orderedProducts, outbox>>]_vars

\* a verified principal, no such code: answered 404
C25_Witness ==
    /\ http.pc = "replied"
    /\ http.authEnabled /\ http.token.valid /\ http.user = 2
    /\ http.status = 404 /\ http.error = "Not found"
    /\ ~Called(Handler)

\* both invocations returned their order
BothSucceeded == \A p \in Procs : pc[p] = "returned"

\* C26: for every interleaving of two concurrent createOrder invocations that both
\* succeed there are two distinct Orders afterwards and the line items of each are
\* exactly those of its own cart: no line item of one is attached to the other's order.
C26_ConcurrentOrdersKeepTheirItems ==
    BothSucceeded =>
        /\ \A p, q \in Procs : p # q => order[p].id # order[q].id
        /\ Len(orders) = Cardinality(Procs)
        /\ \A p \in Procs :
            /\ order[p].id \in 1 .. Len(orders)
            /\ orders[order[p].id] = order[p]
            /\ RowsOf(orderedProducts, order[p].id) = LineItemRows(order[p].id, Data(p).items)
            /\ result[p].order = order[p]
            /\ result[p].items = LineItemRows(order[p].id, Data(p).items)
        /\ \A i \in 1 .. Len(orderedProducts) : \E p \in Procs : orderedProducts[i].orderId = order[p].id

\* both returned, with different carts, the second header written before the first
\* invocation's rows
C26_Witness ==
    /\ BothSucceeded
    /\ Data("p1").items # Data("p2").items
    /\ order["p1"].id = 1
    /\ orderedProducts[1].orderId = 2
====
